---- MODULE Spec2Model ----
(***************************************************************************)
(* Model of the HTTP/2 adapter of ntex (ntex/src/http/h2/service.rs):      *)
(* the connection dispatcher `handle`, the stream publish handler          *)
(* `PublishService::call` with the stream task it returns for a Headers    *)
(* event, and the response header preparer `prepare_response`.             *)
(***************************************************************************)
EXTENDS Integers, Sequences, FiniteSets, TLC

VARIABLES
    conn,     \* the connection driven by `handle`: loop state and handle's result
    streams,  \* PublishService.streams: the stream ids that have a PayloadSender
    chans,    \* per stream id, the calls made on the PayloadSender created for it
    tasks,    \* per stream id, the future PublishService::call returned for its Headers
    ret,      \* what the last PublishService::call returned
    inbox,    \* per stream id, the messages the transport delivered for the stream
    stray,    \* the message of the last call, if it was Data or Eof for a stream owed none
    borrow,   \* the RefCell around PublishService.streams: its borrow flag
    call      \* a single application of a pure function (unit level)

vars == <<conn, streams, chans, tasks, ret, inbox, stray, borrow, call>>

(***************************************************************************)
(* Bounds of the model.                                                    *)
(***************************************************************************)
MaxChunks == 2    \* items a response body producer yields before its end
MaxFeeds == 2     \* Data events delivered to one payload channel
MaxLen == 12      \* largest byte count of a Sized body

(***************************************************************************)
(* Status codes prepare_response distinguishes.                            *)
(***************************************************************************)
NO_CONTENT == 204
CONTINUE == 100
PROCESSING == 102
SWITCHING_PROTOCOLS == 101

Statuses == {CONTINUE, SWITCHING_PROTOCOLS, PROCESSING, 200, NO_CONTENT, 500}

(***************************************************************************)
(* HeaderMap: header name -> the values stored under it, in order.         *)
(* An empty sequence is an absent header.                                  *)
(***************************************************************************)
CONTENT_LENGTH == "content-length"
CONNECTION == "connection"
TRANSFER_ENCODING == "transfer-encoding"
DATE == "date"
CONTENT_TYPE == "content-type"

HeaderNames == {CONTENT_LENGTH, CONNECTION, TRANSFER_ENCODING, DATE, CONTENT_TYPE}

HeaderMapNew == [n \in HeaderNames |-> <<>>]

\* HeaderMap::insert: the value replaces whatever was stored under the name.
HeaderInsert(headers, name, value) == [headers EXCEPT ![name] = <<value>>]

\* HeaderMap::remove: every value stored under the name goes.
HeaderRemove(headers, name) == [headers EXCEPT ![name] = <<>>]

\* HeaderMap::contains_key.
HeaderContainsKey(headers, name) == headers[name] # <<>>

(***************************************************************************)
(* BodySize: None, Empty, Sized(len), Stream.                              *)
(***************************************************************************)
BodyNone == [kind |-> "None", len |-> 0]
BodyEmpty == [kind |-> "Empty", len |-> 0]
BodyStream == [kind |-> "Stream", len |-> 0]
BodySized(n) == [kind |-> "Sized", len |-> n]

\* BodySize::is_eof: the size is None or Empty.
SizeIsEof(size) == size.kind \in {"None", "Empty"}

(***************************************************************************)
(* format!("{}", len): the decimal text of an unsigned integer.            *)
(***************************************************************************)
DigitChar == <<"0", "1", "2", "3", "4", "5", "6", "7", "8", "9">>

RECURSIVE FormatDecimal(_)
FormatDecimal(n) ==
    IF n < 10 THEN DigitChar[n + 1]
    ELSE FormatDecimal(n \div 10) \o DigitChar[(n % 10) + 1]

(***************************************************************************)
(* prepare_response(timer, head, size), rule by rule.  Each rule takes and *)
(* gives the triple the function works on: the head, the size and the      *)
(* local skip_len.                                                         *)
(***************************************************************************)

\* let mut skip_len = size == &BodySize::Stream;
SkipLenInit(size) == size.kind = "Stream"

\* StatusRule without the removal of a content-length set before (status 101).
StatusRule_KeepLength(head, size, skip_len) ==
    IF head.status \in {NO_CONTENT, CONTINUE, PROCESSING}
    THEN [head |-> head, size |-> BodyNone, skip_len |-> skip_len]
    ELSE IF head.status = SWITCHING_PROTOCOLS
    THEN [head |-> head, size |-> BodyStream, skip_len |-> TRUE]
    ELSE [head |-> head, size |-> size, skip_len |-> skip_len]

\* match head.status { ... }
StatusRule(head, size, skip_len) ==
    IF head.status \in {NO_CONTENT, CONTINUE, PROCESSING}
    THEN [head |-> head, size |-> BodyNone, skip_len |-> skip_len]
    ELSE IF head.status = SWITCHING_PROTOCOLS
    THEN [head |-> [head EXCEPT !.headers = HeaderRemove(@, CONTENT_LENGTH)],
          size |-> BodyStream,
          skip_len |-> TRUE]
    ELSE [head |-> head, size |-> size, skip_len |-> skip_len]

\* ContentLengthRule appending the length to the values already there.
ContentLengthRule_Append(head, size, skip_len) ==
    CASE size.kind \in {"None", "Stream"} -> head
      [] size.kind = "Empty" ->
            [head EXCEPT !.headers[CONTENT_LENGTH] = Append(@, "0")]
      [] size.kind = "Sized" ->
            IF ~skip_len
            THEN [head EXCEPT !.headers[CONTENT_LENGTH] =
                      Append(@, FormatDecimal(size.len))]
            ELSE head

\* let _ = match size { ... }
ContentLengthRule(head, size, skip_len) ==
    CASE size.kind \in {"None", "Stream"} -> head
      [] size.kind = "Empty" ->
            [head EXCEPT !.headers = HeaderInsert(@, CONTENT_LENGTH, "0")]
      [] size.kind = "Sized" ->
            IF ~skip_len
            THEN [head EXCEPT !.headers =
                      HeaderInsert(@, CONTENT_LENGTH, FormatDecimal(size.len))]
            ELSE head

\* http2 specific: Connection and Transfer-Encoding are removed.
Http2Rule(head) ==
    [head EXCEPT !.headers =
        HeaderRemove(HeaderRemove(@, CONNECTION), TRANSFER_ENCODING)]

\* DateRule writing the cached date whether or not the head has a date.
DateRule_Always(timer, head) == [head EXCEPT !.headers = HeaderInsert(@, DATE, timer)]

\* set date header, from the timer's cached date, when the head has none.
DateRule(timer, head) ==
    IF ~HeaderContainsKey(head.headers, DATE)
    THEN [head EXCEPT !.headers = HeaderInsert(@, DATE, timer)]
    ELSE head

\* The head and the size are updated in place; skip_len is the local's last value.
prepare_response(timer, head, size) ==
    LET s == StatusRule(head, size, SkipLenInit(size))
        h == ContentLengthRule(s.head, s.size, s.skip_len)
    IN  [head |-> DateRule(timer, Http2Rule(h)),
         size |-> s.size,
         skip_len |-> s.skip_len]

(***************************************************************************)
(* Inputs.                                                                 *)
(***************************************************************************)
\* Stream ids are issued by the transport engine, each for one stream of the
\* connection: one Headers message per id.
StreamIds == {1, 2}

\* The date text the DateService has cached when it is asked.
TimerDates == {"Thu, 29 Oct 2026 00:00:01 GMT", "Thu, 29 Oct 2026 00:00:02 GMT"}

\* Pseudo-header blocks of a Headers event; "" is an absent (None) field.
Pseudo(method, path, scheme, authority) ==
    [method |-> method, path |-> path, scheme |-> scheme, authority |-> authority]

PseudoBlocks ==
    { Pseudo("GET", "/x", "", ""),
      Pseudo("HEAD", "/x", "", ""),
      Pseudo("GET", "/x", "https", "example.org"),
      Pseudo("GET", "/x", "", "example.org"),
      Pseudo("", "/x", "https", "example.org"),
      Pseudo("GET", "", "", ""),
      Pseudo("GET", "/ x", "", ""),
      Pseudo("GET", "/x", "https", ""),
      Pseudo("GET", "/ x", "https", "example.org") }

\* What a response body producer yields, poll after poll, before its end (None).
ChunkOk(chunk) == [ok |-> TRUE, chunk |-> chunk]
ChunkErr == [ok |-> FALSE, chunk |-> ""]
BodyItems == {ChunkOk("hello"), ChunkOk("you"), ChunkOk(""), ChunkErr}
BodyScripts == UNION {[1..n -> BodyItems] : n \in 0..MaxChunks}

\* What the user service returns for a request: a response and its body, or an error.
ServiceOk(status, headers, size, script) ==
    [ok |-> TRUE, status |-> status, headers |-> headers, size |-> size,
     script |-> script, err |-> ""]
ServiceErr(err) ==
    [ok |-> FALSE, status |-> 0, headers |-> HeaderMapNew, size |-> BodyNone,
     script |-> <<>>, err |-> err]

\* Every answer of the user service the model of one stream considers.
ServiceResults ==
    { ServiceOk(st, hd, sz, sc) :
        st \in {200, NO_CONTENT},
        hd \in {HeaderMapNew, HeaderInsert(HeaderMapNew, CONNECTION, "keep-alive")},
        sz \in {BodySized(5), BodyStream},
        sc \in BodyScripts }
    \cup { ServiceOk(200, HeaderMapNew, sz, <<>>) :
             sz \in {BodyNone, BodyEmpty, BodySized(0)} }
    \cup { ServiceErr("boom") }

\* The answers considered when several streams run side by side.
FewServiceResults ==
    { ServiceOk(200, HeaderMapNew, BodySized(5), <<ChunkOk("hello")>>),
      ServiceOk(200, HeaderMapNew, BodyNone, <<>>),
      ServiceErr("boom") }

FewPseudoBlocks == {Pseudo("GET", "/x", "", ""), Pseudo("", "/x", "", ""),
                    Pseudo("GET", "", "", "")}

\* Response::from(&err): the standard error -> response mapping (status 500,
\* a text body holding the error's message).
ResponseFromError(err) ==
    [status |-> 500,
     headers |-> HeaderInsert(HeaderMapNew, CONTENT_TYPE, "text/plain; charset=utf-8"),
     size |-> BodySized(Len(err)),
     script |-> <<ChunkOk(err)>>]

(***************************************************************************)
(* Uri::try_from: the texts that do not parse as a URI (here: a space in   *)
(* the path).                                                              *)
(***************************************************************************)
MalformedPaths == {"/ x"}

UriParses(text) ==
    ~ \E p \in MalformedPaths, b \in PseudoBlocks :
        \/ text = p
        \/ text = b.scheme \o "://" \o b.authority \o p

(***************************************************************************)
(* The head of the stream task, up to the call of the user service:        *)
(* the request is built from the pseudo-headers, or the task fails.        *)
(***************************************************************************)
RequestErr(error) == [ok |-> FALSE, error |-> error, uri |-> "", is_head_req |-> FALSE]
RequestOk(uri, method) ==
    IF UriParses(uri)
    THEN [ok |-> TRUE, error |-> "", uri |-> uri, is_head_req |-> (method = "HEAD")]
    ELSE RequestErr("InvalidUri")

\* BuildRequest taking a missing :method for a method that is not HEAD.
BuildRequest_NoMethodCheck(pseudo) ==
    IF pseudo.path = "" THEN RequestErr("MissingPseudo(Path)")
    ELSE IF pseudo.authority # ""
    THEN IF pseudo.scheme = "" THEN RequestErr("MissingPseudo(Scheme)")
         ELSE RequestOk(pseudo.scheme \o "://" \o pseudo.authority \o pseudo.path,
                        pseudo.method)
    ELSE RequestOk(pseudo.path, pseudo.method)

\* BuildRequest falling back to the path alone when :scheme is missing.
BuildRequest_SchemeOptional(pseudo) ==
    IF pseudo.path = "" THEN RequestErr("MissingPseudo(Path)")
    ELSE IF pseudo.method = "" THEN RequestErr("MissingPseudo(Method)")
    ELSE IF pseudo.authority # "" /\ pseudo.scheme # ""
    THEN RequestOk(pseudo.scheme \o "://" \o pseudo.authority \o pseudo.path,
                   pseudo.method)
    ELSE RequestOk(pseudo.path, pseudo.method)

BuildRequest(pseudo) ==
    IF pseudo.path = "" THEN RequestErr("MissingPseudo(Path)")
    ELSE IF pseudo.method = "" THEN RequestErr("MissingPseudo(Method)")
    ELSE IF pseudo.authority # ""
    THEN IF pseudo.scheme = "" THEN RequestErr("MissingPseudo(Scheme)")
         ELSE RequestOk(pseudo.scheme \o "://" \o pseudo.authority \o pseudo.path,
                        pseudo.method)
    ELSE RequestOk(pseudo.path, pseudo.method)

(***************************************************************************)
(* The response the task goes on with: the service's, or the one made from *)
(* the service's error.                                                    *)
(***************************************************************************)
ServiceOutcome(r) ==
    IF r.ok
    THEN [status |-> r.status, headers |-> r.headers, size |-> r.size, script |-> r.script]
    ELSE ResponseFromError(r.err)

(***************************************************************************)
(* Frames handed to the stream handle (msg.stream()).                      *)
(***************************************************************************)
ResponseFrame(status, headers, eos) ==
    [kind |-> "response", status |-> status, headers |-> headers, data |-> "", eos |-> eos]
PayloadFrame(data, eos) ==
    [kind |-> "payload", status |-> 0, headers |-> HeaderMapNew, data |-> data, eos |-> eos]

\* Variant: the method of the request is not looked at.
HeadersEndStream_IgnoreHead(size, is_head_req) == SizeIsEof(size)

\* size.is_eof() || is_head_req
HeadersEndStream(size, is_head_req) == SizeIsEof(size) \/ is_head_req

(***************************************************************************)
(* Stream tasks.                                                           *)
(***************************************************************************)
NoService == [ok |-> FALSE, status |-> 0, headers |-> HeaderMapNew, size |-> BodyNone,
              script |-> <<>>, err |-> "not called"]

NoPseudo == Pseudo("", "", "", "")

\* No Headers message has come for the stream id.
NoTask ==
    [pc |-> "none", pseudo |-> NoPseudo, payload |-> FALSE,
     uri |-> "", is_head_req |-> FALSE,
     svc |-> NoService, script |-> <<>>, size |-> BodyNone, polls |-> 0,
     frames |-> <<>>, inflight |-> <<>>, result |-> "pending"]

\* The future as PublishService::call returns it: not polled yet.
NewTask(pseudo, eof) == [NoTask EXCEPT !.pc = "start", !.pseudo = pseudo, !.payload = ~eof]

TaskDone(task, result) == [task EXCEPT !.pc = "done", !.result = result]

\* The task after the first poll of its future, up to the service call.
AfterStart(task) ==
    LET req == BuildRequest(task.pseudo)
    IN  IF req.ok
        THEN [task EXCEPT !.pc = "service", !.uri = req.uri, !.is_head_req = req.is_head_req]
        ELSE TaskDone(task, req.error)

\* The response res is prepared and its head sent; r is what the service returned.
SendHead(task, r, res, timer, sent) ==
    LET p == prepare_response(timer, [status |-> res.status, headers |-> res.headers],
                              res.size)
        eos == HeadersEndStream(p.size, task.is_head_req)
        t1 == [task EXCEPT !.svc = r, !.script = res.script, !.size = p.size]
    IN  IF ~sent THEN TaskDone(t1, "Err(Stream)")
        ELSE LET t2 == [t1 EXCEPT !.frames =
                            <<ResponseFrame(p.head.status, p.head.headers, eos)>>]
             IN  IF eos THEN TaskDone(t2, "Ok") ELSE [t2 EXCEPT !.pc = "poll"]

\* AfterService handing the service's error on to the caller of the task.
AfterService_Propagate(task, r, timer, sent) ==
    IF ~r.ok THEN TaskDone([task EXCEPT !.svc = r], "Err(Service)")
    ELSE SendHead(task, r, ServiceOutcome(r), timer, sent)

\* The task once the service has returned r, up to the first poll of the body.
AfterService(task, r, timer, sent) == SendHead(task, r, ServiceOutcome(r), timer, sent)

\* The next thing the body producer yields: Some(item), or None at its end.
NextChunk(task) ==
    IF task.polls < Len(task.script)
    THEN [some |-> TRUE, item |-> task.script[task.polls + 1]]
    ELSE [some |-> FALSE, item |-> ChunkErr]

\* AfterPoll going on with the loop after a failure of the producer.
AfterPoll_IgnoreError(task) ==
    LET next == NextChunk(task)
        t1 == [task EXCEPT !.polls = @ + 1]
    IN  IF ~next.some
        THEN [t1 EXCEPT !.pc = "send", !.inflight = <<PayloadFrame("", TRUE)>>]
        ELSE IF next.item.ok /\ next.item.chunk # ""
        THEN [t1 EXCEPT !.pc = "send",
                        !.inflight = <<PayloadFrame(next.item.chunk, FALSE)>>]
        ELSE t1

\* AfterPoll ending the task at the producer's end without the closing frame.
AfterPoll_NoEndFrame(task) ==
    LET next == NextChunk(task)
        t1 == [task EXCEPT !.polls = @ + 1]
    IN  IF ~next.some
        THEN TaskDone(t1, "Ok")
        ELSE IF next.item.ok
        THEN IF next.item.chunk # ""
             THEN [t1 EXCEPT !.pc = "send",
                             !.inflight = <<PayloadFrame(next.item.chunk, FALSE)>>]
             ELSE t1
        ELSE TaskDone(t1, "Err(Payload)")

\* AfterPoll sending every chunk, the empty ones too.
AfterPoll_SendEmpty(task) ==
    LET next == NextChunk(task)
        t1 == [task EXCEPT !.polls = @ + 1]
    IN  IF ~next.some
        THEN [t1 EXCEPT !.pc = "send", !.inflight = <<PayloadFrame("", TRUE)>>]
        ELSE IF next.item.ok
        THEN [t1 EXCEPT !.pc = "send",
                        !.inflight = <<PayloadFrame(next.item.chunk, FALSE)>>]
        ELSE TaskDone(t1, "Err(Payload)")

\* AfterPoll starting the send of a chunk and going on without awaiting it.
AfterPoll_NoAwait(task) ==
    LET next == NextChunk(task)
        t1 == [task EXCEPT !.polls = @ + 1]
    IN  IF ~next.some
        THEN [t1 EXCEPT !.pc = "send", !.inflight = Append(@, PayloadFrame("", TRUE))]
        ELSE IF next.item.ok
        THEN IF next.item.chunk # ""
             THEN [t1 EXCEPT !.inflight = Append(@, PayloadFrame(next.item.chunk, FALSE))]
             ELSE t1
        ELSE TaskDone(t1, "Err(Payload)")

\* One turn of the loop, up to the send it starts.
AfterPoll(task) ==
    LET next == NextChunk(task)
        t1 == [task EXCEPT !.polls = @ + 1]
    IN  IF ~next.some
        THEN [t1 EXCEPT !.pc = "send", !.inflight = <<PayloadFrame("", TRUE)>>]
        ELSE IF next.item.ok
        THEN IF next.item.chunk # ""
             THEN [t1 EXCEPT !.pc = "send",
                             !.inflight = <<PayloadFrame(next.item.chunk, FALSE)>>]
             ELSE t1
        ELSE TaskDone(t1, "Err(Payload)")

\* AfterSend going back to the producer after the closing frame too.
AfterSend_GoOn(task, sent) ==
    LET frame == task.inflight[1]
        t1 == [task EXCEPT !.inflight = <<>>]
    IN  IF ~sent THEN TaskDone(t1, "Err(Stream)")
        ELSE [t1 EXCEPT !.frames = Append(@, frame), !.pc = "poll"]

\* send_payload(..).await? has completed, with the frame sent or with an error.
AfterSend(task, sent) ==
    LET frame == task.inflight[1]
        t1 == [task EXCEPT !.inflight = <<>>]
    IN  IF ~sent THEN TaskDone(t1, "Err(Stream)")
        ELSE LET t2 == [t1 EXCEPT !.frames = Append(@, frame)]
             IN  IF frame.eos THEN TaskDone(t2, "Ok") ELSE [t2 EXCEPT !.pc = "poll"]

\* HandleResult handing on what the connection loop returned.
HandleResult_Propagate(loop) == loop

\* handle: the result of server::handle_one is dropped, Ok(()) is returned.
HandleResult(loop) == "Ok"

(***************************************************************************)
(* streams is a RefCell: borrow_mut panics while another borrow is alive,  *)
(* and the borrow ends when the RefMut is dropped.  Each arm of call is    *)
(* listed with what it does to the cell, in order; the future it returns   *)
(* for Headers holds no reference to the cell.                             *)
(***************************************************************************)
RefCellNew == [held |-> FALSE, panicked |-> FALSE]

borrow_mut(cell) ==
    IF cell.held THEN [cell EXCEPT !.panicked = TRUE] ELSE [cell EXCEPT !.held = TRUE]

drop_ref(cell) == [cell EXCEPT !.held = FALSE]

RECURSIVE RunAccess(_, _)
RunAccess(cell, ops) ==
    IF ops = <<>> \/ cell.panicked THEN cell
    ELSE RunAccess(CASE Head(ops) = "borrow_mut" -> borrow_mut(cell)
                     [] Head(ops) = "drop" -> drop_ref(cell)
                     [] OTHER -> cell,
                   Tail(ops))

\* Headers: streams.borrow_mut().insert(..), a statement of its own.
HeadersAccess(eof) == IF ~eof THEN <<"borrow_mut", "insert", "drop">> ELSE <<>>

\* Variant: the RefMut of the lookup is kept after the arm returns.
DataAccess_Kept(found) ==
    IF found THEN <<"borrow_mut", "get_mut", "feed_data">>
    ELSE <<"borrow_mut", "get_mut", "drop">>

\* Data: the RefMut of the lookup lives to the end of the if-let, over feed_data.
DataAccess(found) ==
    IF found THEN <<"borrow_mut", "get_mut", "feed_data", "drop">>
    ELSE <<"borrow_mut", "get_mut", "drop">>

\* Eof: the RefMut of the removal lives to the end of the if-let, over the
\* call made on the removed sender.
EofAccess(found) ==
    IF found THEN <<"borrow_mut", "remove", "terminal", "drop">>
    ELSE <<"borrow_mut", "remove", "drop">>

\* Any other message: the table is not touched.
OtherAccess == <<>>

(***************************************************************************)
(* Initial state: a connection has been accepted and handle has built the  *)
(* two services; the stream table is empty.                                *)
(***************************************************************************)
\* No Data or Eof message was delivered out of turn by the last call.
NoStray == [kind |-> "none", id |-> 0]

NoCall == [fn |-> "none"]

InitConnection ==
    /\ conn = [state |-> "running", loop |-> "none", result |-> "none"]
    /\ streams = {}
    /\ chans = [id \in StreamIds |-> <<>>]
    /\ tasks = [id \in StreamIds |-> NoTask]
    /\ ret = "none"
    /\ inbox = [id \in StreamIds |-> <<>>]
    /\ stray = NoStray
    /\ borrow = RefCellNew

Init == InitConnection /\ call = NoCall

Running == conn.state = "running"

(***************************************************************************)
(* The messages delivered for a stream, as the transport engine sends them:*)
(* the Headers message first, then the Data and Eof messages up to the     *)
(* first Eof (what comes for a stream without Headers, with endStream on   *)
(* its Headers, or after its Eof is not kept).                             *)
(***************************************************************************)
MsgHeaders(eof) == [kind |-> "Headers", eof |-> eof, data |-> "", cap |-> 0, item |-> ""]
MsgData(data, cap) == [kind |-> "Data", eof |-> FALSE, data |-> data, cap |-> cap, item |-> ""]
MsgEof(item) ==
    [kind |-> "Eof", eof |-> TRUE, data |-> item.data, cap |-> 0, item |-> item.kind]

\* The stream had Headers without endStream and no Eof yet.
ExpectsPayload(id) ==
    /\ inbox[id] # <<>>
    /\ ~inbox[id][1].eof
    /\ \A i \in 1..Len(inbox[id]) : inbox[id][i].kind # "Eof"

\* The message of a call as it is remembered: Data and Eof for a stream that
\* had no Headers, whose Headers ended the stream, or that had its Eof.
Stray(kind, id) ==
    IF kind \in {"Data", "Eof"} /\ ~ExpectsPayload(id)
    THEN [kind |-> kind, id |-> id]
    ELSE NoStray

(***************************************************************************)
(* PublishService::call: what each kind of message does to the stream      *)
(* table and to the payload senders.                                       *)
(***************************************************************************)

\* The calls a PayloadSender takes.
FeedData(data, cap) == [op |-> "feed_data", data |-> data, cap |-> cap]
FeedEof(data) == [op |-> "feed_eof", data |-> data, cap |-> 0]
SetError(err) == [op |-> "set_error", data |-> err, cap |-> 0]

\* Variant: a sender is inserted for every Headers message.
OnHeaders_Always(table, id, eof) == table \cup {id}

\* Headers: a sender is inserted under the stream id unless the stream has ended.
OnHeaders(table, id, eof) == IF ~eof THEN table \cup {id} ELSE table

\* Variant: the chunk is fed without its capacity.
OnData_NoCredit(table, senders, id, data, cap) ==
    IF id \in table
    THEN [senders EXCEPT ![id] = Append(@, FeedData(data, 0))]
    ELSE senders

\* Variant: the chunk is fed whether or not the table has the stream id.
OnData_FeedMissing(table, senders, id, data, cap) ==
    [senders EXCEPT ![id] = Append(@, FeedData(data, cap))]

\* Data: the chunk and its capacity go to the sender stored under the stream id.
OnData(table, senders, id, data, cap) ==
    IF id \in table
    THEN [senders EXCEPT ![id] = Append(@, FeedData(data, cap))]
    ELSE senders

\* Variant: a stream error ends the payload like a normal end of stream.
EofCall_ErrorAsEof(item) ==
    CASE item.kind = "Data" -> FeedEof(item.data)
      [] item.kind = "Trailers" -> FeedEof("")
      [] item.kind = "Error" -> FeedEof("")

\* Eof: the call made on the sender taken out of the table.
EofCall(item) ==
    CASE item.kind = "Data" -> FeedEof(item.data)
      [] item.kind = "Trailers" -> FeedEof("")
      [] item.kind = "Error" -> SetError(item.data)

\* Eof: the sender is removed from the table and gets its last call.
OnEof(table, senders, id, item) ==
    IF id \in table
    THEN [table |-> table \ {id},
          senders |-> [senders EXCEPT ![id] = Append(@, EofCall(item))]]
    ELSE [table |-> table, senders |-> senders]

\* What call returns: the stream's future for Headers, Ready::Ok(()) otherwise.
PublishReturn(kind) == IF kind = "Headers" THEN "Future" ELSE "Ready(Ok)"

(***************************************************************************)
(* PublishService::call, one action per kind of message.                   *)
(***************************************************************************)
\* The transport opens a stream id once: Headers come for an id that had none.
PublishHeaders(id, pseudo, eof) ==
    /\ Running
    /\ inbox[id] = <<>>
    /\ streams' = OnHeaders(streams, id, eof)
    /\ tasks' = [tasks EXCEPT ![id] = NewTask(pseudo, eof)]
    /\ ret' = PublishReturn("Headers")
    /\ inbox' = [inbox EXCEPT ![id] = <<MsgHeaders(eof)>>]
    /\ stray' = Stray("Headers", id)
    /\ borrow' = RunAccess(borrow, HeadersAccess(eof))
    /\ UNCHANGED <<conn, chans, call>>

PublishData(id, data, cap) ==
    /\ Running
    /\ ExpectsPayload(id) => Len(inbox[id]) <= MaxFeeds
    /\ chans' = OnData(streams, chans, id, data, cap)
    /\ ret' = PublishReturn("Data")
    /\ inbox' = IF ExpectsPayload(id)
                THEN [inbox EXCEPT ![id] = Append(@, MsgData(data, cap))]
                ELSE inbox
    /\ stray' = Stray("Data", id)
    /\ borrow' = RunAccess(borrow, DataAccess(id \in streams))
    /\ UNCHANGED <<conn, streams, tasks, call>>

PublishEof(id, item) ==
    /\ Running
    /\ streams' = OnEof(streams, chans, id, item).table
    /\ chans' = OnEof(streams, chans, id, item).senders
    /\ ret' = PublishReturn("Eof")
    /\ inbox' = IF ExpectsPayload(id)
                THEN [inbox EXCEPT ![id] = Append(@, MsgEof(item))]
                ELSE inbox
    /\ stray' = Stray("Eof", id)
    /\ borrow' = RunAccess(borrow, EofAccess(id \in streams))
    /\ UNCHANGED <<conn, tasks, call>>

PublishOther(id) ==
    /\ Running
    /\ ret' = PublishReturn("Other")
    /\ stray' = Stray("Other", id)
    /\ borrow' = RunAccess(borrow, OtherAccess)
    /\ UNCHANGED <<conn, streams, chans, tasks, inbox, call>>

(***************************************************************************)
(* The stream task, one action per stretch between two suspension points.  *)
(***************************************************************************)
TaskStart(id) ==
    /\ Running
    /\ tasks[id].pc = "start"
    /\ tasks' = [tasks EXCEPT ![id] = AfterStart(@)]
    /\ UNCHANGED <<conn, streams, chans, ret, inbox, stray, borrow, call>>

ServiceReturn(id, r, timer, sent) ==
    /\ Running
    /\ tasks[id].pc = "service"
    /\ tasks' = [tasks EXCEPT ![id] = AfterService(@, r, timer, sent)]
    /\ UNCHANGED <<conn, streams, chans, ret, inbox, stray, borrow, call>>

PollChunk(id) ==
    /\ Running
    /\ tasks[id].pc = "poll"
    /\ tasks' = [tasks EXCEPT ![id] = AfterPoll(@)]
    /\ UNCHANGED <<conn, streams, chans, ret, inbox, stray, borrow, call>>

SendPayload(id, sent) ==
    /\ Running
    /\ tasks[id].pc = "send"
    /\ tasks' = [tasks EXCEPT ![id] = AfterSend(@, sent)]
    /\ UNCHANGED <<conn, streams, chans, ret, inbox, stray, borrow, call>>

(***************************************************************************)
(* handle: the connection loop ends with `loop` and handle returns; the    *)
(* services, and with them the stream table and the futures, are dropped.  *)
(***************************************************************************)
Handle(loop) ==
    /\ Running
    /\ conn' = [state |-> "closed", loop |-> loop, result |-> HandleResult(loop)]
    /\ streams' = {}
    /\ chans' = [id \in StreamIds |-> <<>>]
    /\ tasks' = [id \in StreamIds |-> NoTask]
    /\ ret' = "none"
    /\ inbox' = [id \in StreamIds |-> <<>>]
    /\ stray' = NoStray
    /\ borrow' = RefCellNew
    /\ UNCHANGED call

DataChunks == {"a", "bb"}
FewDataChunks == {"a"}
EofItems == { [kind |-> "Data", data |-> "z"],
              [kind |-> "Trailers", data |-> ""],
              [kind |-> "Error", data |-> "reset"] }

\* One connection, its streams side by side, on a transport that takes every
\* frame (SpecStream covers the sends that fail).
Next ==
    \/ \E id \in StreamIds, pseudo \in FewPseudoBlocks, eof \in BOOLEAN :
            PublishHeaders(id, pseudo, eof)
    \/ \E id \in StreamIds, data \in FewDataChunks : PublishData(id, data, Len(data))
    \/ \E id \in StreamIds, item \in EofItems : PublishEof(id, item)
    \/ \E id \in StreamIds : PublishOther(id)
    \/ \E id \in StreamIds : TaskStart(id)
    \/ \E id \in StreamIds, r \in FewServiceResults :
            ServiceReturn(id, r, "Thu, 29 Oct 2026 00:00:01 GMT", TRUE)
    \/ \E id \in StreamIds : PollChunk(id)
    \/ \E id \in StreamIds : SendPayload(id, TRUE)
    \/ \E loop \in {"Ok", "Err"} : Handle(loop)

Spec == Init /\ [][Next]_vars

\* One stream alone, over every request and every answer of the service.
NextStream ==
    \/ \E pseudo \in PseudoBlocks, eof \in BOOLEAN : PublishHeaders(1, pseudo, eof)
    \/ TaskStart(1)
    \/ \E r \in ServiceResults, timer \in TimerDates, sent \in BOOLEAN :
            ServiceReturn(1, r, timer, sent)
    \/ PollChunk(1)
    \/ \E sent \in BOOLEAN : SendPayload(1, sent)

SpecStream == Init /\ [][NextStream]_vars

\* The messages of two streams in every order, each request a GET answered
\* with a streamed body that ends at once, on a transport that takes every frame.
NextPublish ==
    \/ \E id \in StreamIds, eof \in BOOLEAN :
            PublishHeaders(id, Pseudo("GET", "/x", "", ""), eof)
    \/ \E id \in StreamIds, data \in DataChunks : PublishData(id, data, Len(data))
    \/ \E id \in StreamIds, item \in EofItems : PublishEof(id, item)
    \/ \E id \in StreamIds : PublishOther(id)
    \/ \E id \in StreamIds : TaskStart(id)
    \/ \E id \in StreamIds :
            ServiceReturn(id, ServiceOk(200, HeaderMapNew, BodyStream, <<>>),
                          "Thu, 29 Oct 2026 00:00:01 GMT", TRUE)
    \/ \E id \in StreamIds : PollChunk(id)
    \/ \E id \in StreamIds : SendPayload(id, TRUE)

SpecPublish == Init /\ [][NextPublish]_vars

\* The same two streams with one Data chunk and each request answered with a
\* five-byte body: the stream table, the senders and the frames under every
\* order of Headers, Data, Eof and other messages.
NextTable ==
    \/ \E id \in StreamIds, eof \in BOOLEAN :
            PublishHeaders(id, Pseudo("GET", "/x", "", ""), eof)
    \/ \E id \in StreamIds, data \in FewDataChunks : PublishData(id, data, Len(data))
    \/ \E id \in StreamIds, item \in EofItems : PublishEof(id, item)
    \/ \E id \in StreamIds : PublishOther(id)
    \/ \E id \in StreamIds : TaskStart(id)
    \/ \E id \in StreamIds :
            ServiceReturn(id, ServiceOk(200, HeaderMapNew, BodySized(5), <<ChunkOk("hello")>>),
                          "Thu, 29 Oct 2026 00:00:01 GMT", TRUE)
    \/ \E id \in StreamIds : PollChunk(id)
    \/ \E id \in StreamIds : SendPayload(id, TRUE)

SpecTable == Init /\ [][NextTable]_vars

(***************************************************************************)
(* prepare_response on its own: every status, every size and every header  *)
(* map of the sets below, under both cached dates.                         *)
(***************************************************************************)
HeaderMapsIn ==
    { [n \in HeaderNames |->
         CASE n = CONTENT_LENGTH -> cl
           [] n = CONNECTION -> cn
           [] n = TRANSFER_ENCODING -> te
           [] n = DATE -> dt
           [] n = CONTENT_TYPE -> ct] :
      cl \in {<<>>, <<"7">>, <<"7", "8">>},
      cn \in {<<>>, <<"keep-alive">>},
      te \in {<<>>, <<"chunked">>},
      dt \in {<<>>, <<"Mon, 01 Jan 2024 00:00:00 GMT">>},
      ct \in {<<>>, <<"text/plain">>} }

SizesIn == {BodyNone, BodyEmpty, BodyStream} \cup {BodySized(n) : n \in 0..MaxLen}

PrepareCalls ==
    [fn : {"prepare_response"}, timer : TimerDates,
     head : [status : Statuses, headers : HeaderMapsIn], size : SizesIn,
     done : {FALSE}, out : {<<>>}]

InitPrepare == InitConnection /\ call \in PrepareCalls

PrepareResponse ==
    /\ call.fn = "prepare_response"
    /\ ~call.done
    /\ call' = [call EXCEPT !.done = TRUE,
                            !.out = prepare_response(call.timer, call.head, call.size)]
    /\ UNCHANGED <<conn, streams, chans, tasks, ret, inbox, stray, borrow>>

NextPrepare == PrepareResponse

SpecPrepare == InitPrepare /\ [][NextPrepare]_vars

(***************************************************************************)
(* headers/caching.rs: CacheFlags(u16) and CacheControl.                   *)
(***************************************************************************)
U16 == 65536

RECURSIVE BitAnd(_, _)
BitAnd(a, b) ==
    IF a = 0 \/ b = 0 THEN 0
    ELSE 2 * BitAnd(a \div 2, b \div 2) + (IF a % 2 = 1 /\ b % 2 = 1 THEN 1 ELSE 0)

RECURSIVE BitOr(_, _)
BitOr(a, b) ==
    IF a = 0 THEN b
    ELSE IF b = 0 THEN a
    ELSE 2 * BitOr(a \div 2, b \div 2) + (IF a % 2 = 1 \/ b % 2 = 1 THEN 1 ELSE 0)

BitNot(a) == (U16 - 1) - a
Shl(a, n) == (a * (2 ^ n)) % U16

EMPTY == 0
NO_CACHE == 1
PRIVATE == Shl(1, 4)

FLAGS == <<"no-cache", "must-revalidate", "proxy-revalidate", "no-store", "private",
           "public", "must-understand", "no-transform", "immutable", "only-if-cached">>

\* Option<Duration>, the duration in milliseconds.
None == [some |-> FALSE, d |-> 0]
Some(d) == [some |-> TRUE, d |-> d]
as_secs(d) == d \div 1000

CacheControlNew ==
    [bitflags |-> EMPTY, max_age |-> None, s_maxage |-> None,
     stale_while_revalidate |-> None, stale_if_error |-> None,
     max_stale |-> None, min_fresh |-> None]

has_flag(cc, flag) ==
    IF flag = EMPTY THEN cc.bitflags = flag ELSE BitAnd(cc.bitflags, flag) = flag
set_flag(cc, flag) == [cc EXCEPT !.bitflags = BitOr(@, flag)]
remove_flag(cc, flag) == [cc EXCEPT !.bitflags = BitAnd(@, BitNot(flag))]
set_max_age(cc, value) == [cc EXCEPT !.max_age = Some(value)]
set_s_maxage(cc, value) == [cc EXCEPT !.s_maxage = Some(value)]
set_stale_while_revalidate(cc, value) == [cc EXCEPT !.stale_while_revalidate = Some(value)]
set_stale_if_error(cc, value) == [cc EXCEPT !.stale_if_error = Some(value)]
set_max_stale(cc, value) == [cc EXCEPT !.max_stale = Some(value)]
set_min_fresh(cc, value) == [cc EXCEPT !.min_fresh = Some(value)]

\* The names of the flags that are set among the first n of FLAGS, in that order.
RECURSIVE FlagNames(_, _)
FlagNames(cc, n) ==
    IF n = 0 THEN <<>>
    ELSE IF has_flag(cc, Shl(1, n - 1))
    THEN Append(FlagNames(cc, n - 1), FLAGS[n])
    ELSE FlagNames(cc, n - 1)

\* Variant: every time directive that is set is written.
TimeDirective_All(cc) ==
    (IF cc.max_age.some
     THEN <<"max-age=" \o FormatDecimal(as_secs(cc.max_age.d))>> ELSE <<>>)
    \o (IF cc.s_maxage.some
        THEN <<"s-maxage=" \o FormatDecimal(as_secs(cc.s_maxage.d))>> ELSE <<>>)
    \o (IF cc.stale_while_revalidate.some
        THEN <<"stale-while-revalidate="
                 \o FormatDecimal(as_secs(cc.stale_while_revalidate.d))>> ELSE <<>>)
    \o (IF cc.stale_if_error.some
        THEN <<"stale-if-error=" \o FormatDecimal(as_secs(cc.stale_if_error.d))>> ELSE <<>>)
    \o (IF cc.max_stale.some
        THEN <<"max-stale=" \o FormatDecimal(as_secs(cc.max_stale.d))>> ELSE <<>>)
    \o (IF cc.min_fresh.some
        THEN <<"min-fresh=" \o FormatDecimal(as_secs(cc.min_fresh.d))>> ELSE <<>>)

\* The if / else-if chain of build: what is pushed after the flags.
TimeDirective(cc) ==
    IF cc.max_age.some
    THEN <<"max-age=" \o FormatDecimal(as_secs(cc.max_age.d))>>
    ELSE IF cc.s_maxage.some
    THEN <<"s-maxage=" \o FormatDecimal(as_secs(cc.s_maxage.d))>>
    ELSE IF cc.stale_while_revalidate.some
    THEN <<"stale-while-revalidate=" \o FormatDecimal(as_secs(cc.stale_while_revalidate.d))>>
    ELSE IF cc.stale_if_error.some
    THEN <<"stale-if-error=" \o FormatDecimal(as_secs(cc.stale_if_error.d))>>
    ELSE IF cc.max_stale.some
    THEN <<"max-stale=" \o FormatDecimal(as_secs(cc.max_stale.d))>>
    ELSE IF cc.min_fresh.some
    THEN <<"min-fresh=" \o FormatDecimal(as_secs(cc.min_fresh.d))>>
    ELSE <<>>

\* build: the header values, in order, and the CacheControl itself.
build(cc) ==
    LET vec == IF ~has_flag(cc, EMPTY) THEN FlagNames(cc, Len(FLAGS)) ELSE <<>>
    IN  [value |-> vec \o TimeDirective(cc), self |-> cc]

\* The values of a header as one field value: a comma-separated list.
RECURSIVE ValueText(_)
ValueText(values) ==
    IF values = <<>> THEN ""
    ELSE IF Len(values) = 1 THEN values[1]
    ELSE values[1] \o ", " \o ValueText(Tail(values))

(***************************************************************************)
(* A CacheControl built call by call from CacheControl::new(), then        *)
(* serialized.  call.flags is the set of flags asked for: n stands for     *)
(* FLAGS[n + 1], set with CacheFlags(1 << n).                              *)
(***************************************************************************)
MaxFlags == 3
FlagBits == 0..(Len(FLAGS) - 1)
MaxAges == {30000, 60000}
OtherAges == {7900}

InitCacheControl ==
    /\ InitConnection
    /\ call = [fn |-> "CacheControl", cc |-> CacheControlNew, flags |-> {},
               done |-> FALSE, out |-> <<>>]

Building == call.fn = "CacheControl" /\ ~call.done

CcSetFlag(n) ==
    /\ Building
    /\ Cardinality(call.flags \cup {n}) <= MaxFlags
    /\ call' = [call EXCEPT !.cc = set_flag(@, Shl(1, n)), !.flags = @ \cup {n}]
    /\ UNCHANGED <<conn, streams, chans, tasks, ret, inbox, stray, borrow>>

CcRemoveFlag(n) ==
    /\ Building
    /\ call' = [call EXCEPT !.cc = remove_flag(@, Shl(1, n)), !.flags = @ \ {n}]
    /\ UNCHANGED <<conn, streams, chans, tasks, ret, inbox, stray, borrow>>

CcSetMaxAge(value) ==
    /\ Building
    /\ call' = [call EXCEPT !.cc = set_max_age(@, value)]
    /\ UNCHANGED <<conn, streams, chans, tasks, ret, inbox, stray, borrow>>

CcSetSMaxage(value) ==
    /\ Building
    /\ call' = [call EXCEPT !.cc = set_s_maxage(@, value)]
    /\ UNCHANGED <<conn, streams, chans, tasks, ret, inbox, stray, borrow>>

CcSetStaleWhileRevalidate(value) ==
    /\ Building
    /\ call' = [call EXCEPT !.cc = set_stale_while_revalidate(@, value)]
    /\ UNCHANGED <<conn, streams, chans, tasks, ret, inbox, stray, borrow>>

CcSetStaleIfError(value) ==
    /\ Building
    /\ call' = [call EXCEPT !.cc = set_stale_if_error(@, value)]
    /\ UNCHANGED <<conn, streams, chans, tasks, ret, inbox, stray, borrow>>

CcSetMaxStale(value) ==
    /\ Building
    /\ call' = [call EXCEPT !.cc = set_max_stale(@, value)]
    /\ UNCHANGED <<conn, streams, chans, tasks, ret, inbox, stray, borrow>>

CcSetMinFresh(value) ==
    /\ Building
    /\ call' = [call EXCEPT !.cc = set_min_fresh(@, value)]
    /\ UNCHANGED <<conn, streams, chans, tasks, ret, inbox, stray, borrow>>

CcBuild ==
    /\ Building
    /\ call' = [call EXCEPT !.done = TRUE, !.out = build(call.cc)]
    /\ UNCHANGED <<conn, streams, chans, tasks, ret, inbox, stray, borrow>>

NextCacheControl ==
    \/ \E n \in FlagBits : CcSetFlag(n)
    \/ \E n \in FlagBits : CcRemoveFlag(n)
    \/ \E value \in MaxAges : CcSetMaxAge(value)
    \/ \E value \in OtherAges : CcSetSMaxage(value)
    \/ \E value \in OtherAges : CcSetStaleWhileRevalidate(value)
    \/ \E value \in OtherAges : CcSetStaleIfError(value)
    \/ \E value \in OtherAges : CcSetMaxStale(value)
    \/ \E value \in OtherAges : CcSetMinFresh(value)
    \/ CcBuild

SpecCacheControl == InitCacheControl /\ [][NextCacheControl]_vars

(***************************************************************************)
(* headers/content_negotiation.rs: Quality.                                *)
(*                                                                         *)
(* An f32 is NaN, an infinity, or (-1)^neg * m * 2^e with m = 0 or m a     *)
(* 24-bit significand (F32_HALF <= m < F32_ONE); the arguments and the     *)
(* products met here are far from the subnormal range.                     *)
(***************************************************************************)
F32_ONE == 16777216
F32_HALF == F32_ONE \div 2
U16_MAX == U16 - 1
MQ == 1000

F32(neg, m, e) == [cls |-> "finite", neg |-> neg, m |-> m, e |-> e]
F32_NAN == [cls |-> "nan", neg |-> FALSE, m |-> 0, e |-> 0]
F32_INF(neg) == [cls |-> "inf", neg |-> neg, m |-> 0, e |-> 0]

\* Round to nearest, ties to even: m is the kept significand, up says the
\* dropped part is above one half, tie that it is exactly one half.
F32Round(neg, m, e, up, tie) ==
    LET m1 == IF up \/ (tie /\ m % 2 = 1) THEN m + 1 ELSE m
    IN  IF m1 = F32_ONE THEN F32(neg, F32_HALF, e + 1) ELSE F32(neg, m1, e)

\* The significand of (acc + rem / den) * 2^e, bit by bit, then rounded.
RECURSIVE F32Bits(_, _, _, _, _)
F32Bits(neg, acc, rem, den, e) ==
    IF acc >= F32_HALF
    THEN F32Round(neg, acc, e, 2 * rem > den, 2 * rem = den)
    ELSE F32Bits(neg, 2 * acc + (IF 2 * rem >= den THEN 1 ELSE 0), (2 * rem) % den, den, e - 1)

\* The f32 literal k / 10000 (k ten-thousandths), correctly rounded.
F32FromDecimal(k) ==
    LET a == IF k < 0 THEN 0 - k ELSE k
    IN  IF a = 0 THEN F32(FALSE, 0, 0)
        ELSE F32Bits(k < 0, a \div 10000, a % 10000, 10000, 0)

\* f < 0.0
F32Negative(f) ==
    \/ f.cls = "inf" /\ f.neg
    \/ f.cls = "finite" /\ f.neg /\ f.m # 0

\* The bits a significand product has above 24: p < 2^31.
F32Excess(p) == IF p >= 128 * F32_HALF THEN 7 ELSE 6

\* f * 1000.0: the exact product m * 125 * 2^(e + 3), rounded to 24 bits.
F32Mul1000(f) ==
    IF f.cls # "finite" \/ f.m = 0 THEN f
    ELSE LET p == f.m * 125
             s == F32Excess(p)
             r == p % (2 ^ s)
         IN  F32Round(f.neg, p \div (2 ^ s), f.e + 3 + s,
                      r > 2 ^ (s - 1), r = 2 ^ (s - 1))

\* x as u16: truncation toward zero, saturating, NaN to 0.
F32AsU16(f) ==
    CASE f.cls = "nan" -> 0
      [] f.cls = "inf" -> IF f.neg THEN 0 ELSE U16_MAX
      [] OTHER ->
            IF f.neg \/ f.m = 0 THEN 0
            ELSE IF f.e >= 0 THEN U16_MAX
            ELSE IF 0 - f.e >= 24 THEN 0
            ELSE LET t == f.m \div (2 ^ (0 - f.e))
                 IN  IF t > U16_MAX THEN U16_MAX ELSE t

\* Quality and Option<Quality>.
QualityValue(q) == [kind |-> "Value", q |-> q]
QualityDefault == [kind |-> "Default", q |-> 0]
QualityNone == [some |-> FALSE, quality |-> QualityDefault]
QualitySome(quality) == [some |-> TRUE, quality |-> quality]

MP == QualityDefault
LP == QualityValue(1)
NA == QualityValue(0)

\* Quality::from_f32
from_f32(f) ==
    IF F32Negative(f) THEN QualityNone
    ELSE IF F32AsU16(F32Mul1000(f)) > MQ THEN QualityNone
    ELSE QualitySome(QualityValue(F32AsU16(F32Mul1000(f))))

\* {} of q as f32 / 1000.0 for q in 1..MQ: the shortest decimal that reads
\* back as the same f32, which is q / 1000 without its trailing zeros.
ThousandthsText(q) ==
    IF q % 1000 = 0 THEN FormatDecimal(q \div 1000)
    ELSE FormatDecimal(q \div 1000) \o "."
         \o (IF q % 100 = 0 THEN DigitChar[((q \div 100) % 10) + 1]
             ELSE IF q % 10 = 0
             THEN DigitChar[((q \div 100) % 10) + 1] \o DigitChar[((q \div 10) % 10) + 1]
             ELSE DigitChar[((q \div 100) % 10) + 1] \o DigitChar[((q \div 10) % 10) + 1]
                  \o DigitChar[(q % 10) + 1])

\* Display for Quality: the text written, or fmt::Error.
QualityFmt(quality) ==
    IF quality.kind = "Value"
    THEN IF quality.q = 0 THEN [ok |-> TRUE, text |-> "q=0"]
         ELSE IF quality.q > MQ THEN [ok |-> FALSE, text |-> ""]
         ELSE [ok |-> TRUE, text |-> "q=" \o ThousandthsText(quality.q)]
    ELSE [ok |-> TRUE, text |-> ""]

(***************************************************************************)
(* A Quality is made from an f32 (a decimal literal in ten-thousandths,    *)
(* NaN or an infinity) or by Default, then written with Display.           *)
(***************************************************************************)
MaxBelow == 1000
MaxAbove == 15000

QualityArgs ==
    {[lit |-> "decimal", k |-> k] : k \in (0 - MaxBelow)..MaxAbove}
    \cup {[lit |-> l, k |-> 0] : l \in {"NaN", "inf", "-inf", "default"}}

ArgF32(arg) ==
    CASE arg.lit = "decimal" -> F32FromDecimal(arg.k)
      [] arg.lit = "NaN" -> F32_NAN
      [] arg.lit = "inf" -> F32_INF(FALSE)
      [] arg.lit = "-inf" -> F32_INF(TRUE)

InitQuality ==
    /\ InitConnection
    /\ call \in [fn : {"Quality"}, arg : QualityArgs, stage : {"arg"},
                 made : {QualityNone}, shown : {[ok |-> TRUE, text |-> ""]}]

QualityFromF32 ==
    /\ call.fn = "Quality"
    /\ call.stage = "arg"
    /\ call.arg.lit # "default"
    /\ call' = [call EXCEPT !.stage = "made", !.made = from_f32(ArgF32(call.arg))]
    /\ UNCHANGED <<conn, streams, chans, tasks, ret, inbox, stray, borrow>>

QualityDefaultNew ==
    /\ call.fn = "Quality"
    /\ call.stage = "arg"
    /\ call.arg.lit = "default"
    /\ call' = [call EXCEPT !.stage = "made", !.made = QualitySome(QualityDefault)]
    /\ UNCHANGED <<conn, streams, chans, tasks, ret, inbox, stray, borrow>>

QualityDisplay ==
    /\ call.fn = "Quality"
    /\ call.stage = "made"
    /\ call.made.some
    /\ call' = [call EXCEPT !.stage = "shown", !.shown = QualityFmt(call.made.quality)]
    /\ UNCHANGED <<conn, streams, chans, tasks, ret, inbox, stray, borrow>>

NextQuality == QualityFromF32 \/ QualityDefaultNew \/ QualityDisplay

SpecQuality == InitQuality /\ [][NextQuality]_vars

(***************************************************************************)
(* ControlService: the service the connection loop hands every control     *)
(* message to.  The struct has no field; call.log lists what the loop      *)
(* asked of it and what it got back.                                       *)
(***************************************************************************)
MaxControl == 3
ControlMessages == {"keepalive", "settings", "go_away", "terminated"}

\* What a poll or a call gives back: ready or pending, Ok or Err(()), and for
\* a call the acknowledgement, named by the message it acknowledges.
ControlAnswer(ready, ok, ack) == [ready |-> ready, ok |-> ok, ack |-> ack]

\* msg.ack(): the acknowledgement of msg.
Ack(msg) == "ack(" \o msg \o ")"

\* poll_ready: Poll::Ready(Ok(()))
ControlPollReadyResult == ControlAnswer(TRUE, TRUE, "")

\* poll_shutdown: Poll::Ready(())
ControlPollShutdownResult == ControlAnswer(TRUE, TRUE, "")

\* Variant: the end of the connection is answered with an error.
ControlCallResult_FailTerminated(msg) ==
    IF msg = "terminated" THEN ControlAnswer(TRUE, FALSE, "")
    ELSE ControlAnswer(TRUE, TRUE, Ack(msg))

\* call: Ready::Ok(msg.ack())
ControlCallResult(msg) == ControlAnswer(TRUE, TRUE, Ack(msg))

InitControl ==
    /\ InitConnection
    /\ call = [fn |-> "ControlService", log |-> <<>>]

ControlRunning == call.fn = "ControlService" /\ Len(call.log) < MaxControl

ControlPollReady ==
    /\ ControlRunning
    /\ call' = [call EXCEPT !.log = Append(@, [op |-> "poll_ready", msg |-> "",
                                               res |-> ControlPollReadyResult])]
    /\ UNCHANGED <<conn, streams, chans, tasks, ret, inbox, stray, borrow>>

ControlPollShutdown ==
    /\ ControlRunning
    /\ call' = [call EXCEPT !.log = Append(@, [op |-> "poll_shutdown", msg |-> "",
                                               res |-> ControlPollShutdownResult])]
    /\ UNCHANGED <<conn, streams, chans, tasks, ret, inbox, stray, borrow>>

ControlCall(msg) ==
    /\ ControlRunning
    /\ call' = [call EXCEPT !.log = Append(@, [op |-> "call", msg |-> msg,
                                               res |-> ControlCallResult(msg)])]
    /\ UNCHANGED <<conn, streams, chans, tasks, ret, inbox, stray, borrow>>

NextControl ==
    \/ ControlPollReady
    \/ ControlPollShutdown
    \/ \E msg \in ControlMessages : ControlCall(msg)

SpecControl == InitControl /\ [][NextControl]_vars

\* The decimal text of a number below 100, digit by digit.
TwoDigitText(n) ==
    IF n < 10 THEN DigitChar[n + 1]
    ELSE DigitChar[(n \div 10) + 1] \o DigitChar[(n % 10) + 1]

(***************************************************************************)
(* Properties of the stream task and of handle.                            *)
(***************************************************************************)

\* C1: Headers{GET, "/x", endStream} answered by 200 with a Sized(5) body yielding
\* "hello": the task sends the head (status 200, content-length "5", endStream
\* false), then "hello" (endStream false), then an empty payload with endStream,
\* these three frames in this order and no other, and ends with Ok.
C1_Scenario(task) ==
    /\ task.pseudo = Pseudo("GET", "/x", "", "")
    /\ ~task.payload
    /\ task.svc = ServiceOk(200, HeaderMapNew, BodySized(5), <<ChunkOk("hello")>>)

C1_Frame(frame, i) ==
    CASE i = 1 -> /\ frame.kind = "response"
                  /\ frame.status = 200
                  /\ frame.headers[CONTENT_LENGTH] = <<"5">>
                  /\ ~frame.eos
      [] i = 2 -> frame = PayloadFrame("hello", FALSE)
      [] i = 3 -> frame = PayloadFrame("", TRUE)
      [] OTHER -> FALSE

C1_HelloFrames ==
    \A id \in StreamIds :
        C1_Scenario(tasks[id]) =>
            /\ \A i \in 1..Len(tasks[id].frames) : C1_Frame(tasks[id].frames[i], i)
            /\ tasks[id].pc = "done" =>
                    (tasks[id].result = "Ok" /\ Len(tasks[id].frames) = 3)
            /\ tasks[id].pc # "done" => tasks[id].result = "pending"

C1_Witness ==
    /\ C1_Scenario(tasks[1])
    /\ tasks[1].pc = "done"
    /\ tasks[1].result = "Ok"
    /\ Len(tasks[1].frames) = 3

\* C2 as stated: a stream whose Headers lack :method or :path gets an error
\* response, a headers frame, sent on it.
MissingMethodOrPath(task) ==
    task.pc # "none" /\ (task.pseudo.method = "" \/ task.pseudo.path = "")

C2_ErrorResponseSent ==
    \A id \in StreamIds :
        (MissingMethodOrPath(tasks[id]) /\ tasks[id].pc = "done")
            => (tasks[id].frames # <<>> /\ tasks[id].frames[1].kind = "response")

\* C2 amended: a stream whose Headers lack :method or :path fails on the first
\* poll of its task with the MissingPseudo error, before the user service is
\* called and with no frame sent on it; the step that fails it changes nothing
\* but that task: the connection keeps running and the stream table, the
\* channels and the tasks of the other streams are as they were.
C2_FailedWithoutFrame ==
    \A id \in StreamIds :
        (MissingMethodOrPath(tasks[id]) /\ tasks[id].pc # "start")
            => /\ tasks[id].pc = "done"
               /\ tasks[id].result =
                     IF tasks[id].pseudo.path = "" THEN "MissingPseudo(Path)"
                     ELSE "MissingPseudo(Method)"
               /\ tasks[id].frames = <<>>
               /\ tasks[id].svc = NoService
               /\ conn.state = "running"

C2_FailureIsLocal ==
    \A id \in StreamIds :
        (MissingMethodOrPath(tasks[id]) /\ tasks[id].pc = "start" /\ tasks'[id].pc = "done")
            => /\ UNCHANGED <<conn, streams, chans>>
               /\ \A other \in StreamIds \ {id} : tasks'[other] = tasks[other]

C2_MissingPseudoFailsStreamOnly == [] C2_FailedWithoutFrame /\ [][C2_FailureIsLocal]_vars

C2_Witness ==
    /\ tasks[1].pc = "done"
    /\ tasks[1].result = "MissingPseudo(Method)"
    /\ tasks[2].pc = "done"
    /\ tasks[2].result = "Ok"
    /\ Len(tasks[2].frames) = 3
    /\ conn.state = "running"

\* C3: an error of the user service never fails the task: the response made from
\* the error is prepared and its head sent like any other (length of its body,
\* date, no Connection header), and the task ends with Ok; only a send refused
\* by the stream ends it otherwise.
C3_ServiceErrorAnswered ==
    LET task == tasks[1]
        res == ResponseFromError(task.svc.err)
    IN  (task.svc # NoService /\ ~task.svc.ok) =>
            /\ task.result \in {"pending", "Ok", "Err(Stream)"}
            /\ task.frames = <<>> => task.result = "Err(Stream)"
            /\ task.frames # <<>> =>
                  /\ task.frames[1].kind = "response"
                  /\ task.frames[1].status = res.status
                  /\ task.frames[1].headers[CONTENT_LENGTH] = <<TwoDigitText(res.size.len)>>
                  /\ task.frames[1].headers[CONTENT_TYPE] = res.headers[CONTENT_TYPE]
                  /\ task.frames[1].headers[DATE] # <<>>
                  /\ task.frames[1].headers[CONNECTION] = <<>>
                  /\ task.frames[1].eos = task.is_head_req
            /\ (task.pc = "done" /\ task.result = "Ok") =>
                  task.frames[Len(task.frames)].eos

C3_Witness ==
    /\ tasks[1].svc = ServiceErr("boom")
    /\ tasks[1].pc = "done"
    /\ tasks[1].result = "Ok"
    /\ Len(tasks[1].frames) = 3
    /\ tasks[1].frames[2] = PayloadFrame("boom", FALSE)

\* The payload frames of the non-empty chunks among the first k items of a script.
RECURSIVE ChunkFrames(_, _)
ChunkFrames(script, k) ==
    IF k = 0 THEN <<>>
    ELSE IF script[k].ok /\ script[k].chunk # ""
    THEN Append(ChunkFrames(script, k - 1), PayloadFrame(script[k].chunk, FALSE))
    ELSE ChunkFrames(script, k - 1)

\* The last item the producer was polled for is a failure.
ProducerFailed(task) == task.polls \in 1..Len(task.script) /\ ~task.script[task.polls].ok

\* C4: when the body producer fails the task ends at once with that error: the
\* frames sent before stay as they are (the head, then the non-empty chunks
\* yielded before the failure), no payload frame and no end-of-stream frame
\* follows, and the producer is never polled after its failure.
C4_ProducerFailureEndsTask ==
    LET task == tasks[1]
    IN  /\ \A i \in 1..Len(task.script) : i < task.polls => task.script[i].ok
        /\ task.result = "Err(Payload)" => ProducerFailed(task)
        /\ ProducerFailed(task) =>
              /\ task.pc = "done"
              /\ task.result = "Err(Payload)"
              /\ task.inflight = <<>>
              /\ task.frames # <<>>
              /\ task.frames[1].kind = "response"
              /\ task.frames = <<task.frames[1]>> \o ChunkFrames(task.script, task.polls - 1)
              /\ \A i \in 1..Len(task.frames) : ~task.frames[i].eos

C4_Witness ==
    /\ ProducerFailed(tasks[1])
    /\ tasks[1].polls = 2
    /\ tasks[1].script = <<ChunkOk("hello"), ChunkErr>>
    /\ tasks[1].result = "Err(Payload)"
    /\ Len(tasks[1].frames) = 2

\* C5 as stated: when the connection loop ends with an error, handle returns
\* that error.
C5_LoopErrorReturned ==
    (conn.state = "closed" /\ conn.loop = "Err") => conn.result = "Err"

\* C5 amended: handle returns Ok(()) however the connection loop ends; the
\* loop's error is dropped.
C5_HandleReturnsOk == conn.state = "closed" => conn.result = "Ok"

C5_Witness == conn.state = "closed" /\ conn.loop = "Err" /\ conn.result = "Ok"

(***************************************************************************)
(* Properties of prepare_response (SpecPrepare).                           *)
(***************************************************************************)
Prepared == call.fn = "prepare_response" /\ call.done
LengthBefore == call.head.headers[CONTENT_LENGTH]
LengthAfter == call.out.head.headers[CONTENT_LENGTH]

\* C6: for status 204, 100 or 102 and every reported size, the prepared size is
\* None and the head has no content-length header, also when it had one before.
C6_NoLengthForNoContent ==
    (Prepared /\ call.head.status \in {NO_CONTENT, CONTINUE, PROCESSING})
        => (call.out.size = BodyNone /\ LengthAfter = <<>>)

\* C7: for status 101 and every reported size, the prepared size is Stream and the
\* head has no content-length header, also when one was set before.
C7_SwitchingProtocols ==
    (Prepared /\ call.head.status = SWITCHING_PROTOCOLS)
        => (call.out.size = BodyStream /\ LengthAfter = <<>>)

C7_Witness ==
    /\ Prepared
    /\ call.head.status = SWITCHING_PROTOCOLS
    /\ call.size = BodySized(5)
    /\ LengthBefore = <<"7">>
    /\ call.out.size = BodyStream

\* C8: for a Sized(n) body and a status other than 204, 100, 102 and 101, the
\* prepared head holds exactly one content-length header, the decimal text of n,
\* whatever content-length values it held before.
C8_SizedLength ==
    (/\ Prepared
     /\ call.size.kind = "Sized"
     /\ call.head.status \notin {NO_CONTENT, CONTINUE, PROCESSING, SWITCHING_PROTOCOLS})
        => (/\ LengthAfter = <<TwoDigitText(call.size.len)>>
            /\ call.out.size = call.size
            /\ ~call.out.skip_len)

C8_Witness ==
    /\ Prepared
    /\ call.head.status = 200
    /\ call.size = BodySized(12)
    /\ LengthBefore = <<"7", "8">>
    /\ LengthAfter = <<"12">>

\* C9: a content-length header is present after preparation exactly
\* when the prepared size is Sized and skip-length is not marked.
C9_LengthIffSized ==
    Prepared =>
        ((LengthAfter # <<>>) <=> (call.out.size.kind = "Sized" /\ ~call.out.skip_len))

\* C10: a Date header of the head is left as it is, and the cached date is
\* inserted when the head has none; a Date header is always present afterwards.
C10_DateKeptOrInserted ==
    Prepared =>
        /\ call.out.head.headers[DATE] # <<>>
        /\ call.head.headers[DATE] # <<>>
              => call.out.head.headers[DATE] = call.head.headers[DATE]
        /\ call.head.headers[DATE] = <<>>
              => call.out.head.headers[DATE] = <<call.timer>>

C10_Witness ==
    /\ Prepared
    /\ call.head.headers[DATE] = <<"Mon, 01 Jan 2024 00:00:00 GMT">>
    /\ call.out.head.headers[DATE] = <<"Mon, 01 Jan 2024 00:00:00 GMT">>
    /\ call.timer # "Mon, 01 Jan 2024 00:00:00 GMT"


(***************************************************************************)
(* Request payload: Data and Eof messages (PublishService::call).          *)
(***************************************************************************)
IsFeedData(c) == c.op = "feed_data"
IsTerminalCall(c) == c.op \in {"feed_eof", "set_error"}
IsDataMsg(m) == m.kind = "Data"
IsEofMsg(m) == m.kind = "Eof"
DataFed(id) == SelectSeq(chans[id], IsFeedData)
DataDelivered(id) == SelectSeq(inbox[id], IsDataMsg)

\* C11: the chunks fed to the sender of a stream are the chunks of the Data
\* messages delivered for that stream while its channel was open, in the order
\* of delivery and each with the capacity of its own message: none is lost,
\* duplicated, reordered or fed to the sender of another stream.
C11_DataFedInOrder ==
    \A id \in StreamIds :
        /\ Len(DataFed(id)) = Len(DataDelivered(id))
        /\ \A i \in 1..Len(DataFed(id)) :
              /\ DataFed(id)[i].data = DataDelivered(id)[i].data
              /\ DataFed(id)[i].cap = DataDelivered(id)[i].cap

\* Two streams were fed the same two chunks in opposite orders.
C11_Witness ==
    /\ DataFed(1) = <<FeedData("a", 1), FeedData("bb", 2)>>
    /\ DataFed(2) = <<FeedData("bb", 2), FeedData("a", 1)>>

DataOrEofStep(id) ==
    \/ \E data \in DataChunks : PublishData(id, data, Len(data))
    \/ \E item \in EofItems : PublishEof(id, item)

\* C12: a Data or Eof message for a stream id the table does not hold is
\* dropped: the call returns Ready::Ok(()), the table is as before, no sender
\* gets a call and no stream task or frame changes.
C12_MissingChannelDropped ==
    [][\A id \in StreamIds \ streams :
          DataOrEofStep(id) =>
              /\ ret' = "Ready(Ok)"
              /\ UNCHANGED <<streams, chans, tasks>>]_vars

\* The last call brought Data for stream 1, whose Headers ended the stream so
\* that it has no sender: it returned Ready::Ok(()), stream 1 got no call, and
\* stream 2 keeps its sender, the chunk it was fed and the head it had sent.
C12_Witness ==
    /\ stray = [kind |-> "Data", id |-> 1]
    /\ ret = "Ready(Ok)"
    /\ inbox[1] = <<MsgHeaders(TRUE)>>
    /\ 1 \notin streams
    /\ chans[1] = <<>>
    /\ streams = {2}
    /\ DataFed(2) # <<>>
    /\ tasks[2].frames # <<>>

EofDelivered(id) == SelectSeq(inbox[id], IsEofMsg) # <<>>

C13_EntryIffOpen ==
    \A id \in StreamIds :
        id \in streams <=>
            /\ inbox[id] # <<>>
            /\ inbox[id][1] = MsgHeaders(FALSE)
            /\ ~EofDelivered(id)

C13_SecondEofNoEffect ==
    \A id \in StreamIds :
        (EofDelivered(id) /\ \E item \in EofItems : PublishEof(id, item))
            => UNCHANGED <<streams, chans, tasks, inbox>>

\* C13: the table holds a stream id exactly when the stream's Headers message
\* came without endStream and no Eof message came for it since; Headers with
\* endStream adds no entry, and an Eof message after the first one for the
\* same stream changes nothing.
C13_TableLifecycle == [] C13_EntryIffOpen /\ [][C13_SecondEofNoEffect]_vars

\* Stream 1 was opened, fed and ended by an Eof message; stream 2 came with
\* endStream on its Headers; the table is empty.
C13_Witness ==
    /\ Len(inbox[1]) = 3
    /\ EofDelivered(1)
    /\ inbox[2] = <<MsgHeaders(TRUE)>>
    /\ streams = {}

TerminalCalls(id) == SelectSeq(chans[id], IsTerminalCall)

\* C17: the first Eof message of a stream with a sender makes one last call on
\* it and removes it: feed_eof with the bytes for Data, feed_eof with no bytes
\* for Trailers, set_error (and no feed_eof) for Error; a sender never gets two
\* such calls nor feed_data after one.
C17_OneTerminalCall ==
    \A id \in StreamIds :
        /\ Len(TerminalCalls(id)) <= 1
        /\ \A i \in 1..Len(chans[id]) : IsTerminalCall(chans[id][i]) => i = Len(chans[id])
        /\ EofDelivered(id) <=> TerminalCalls(id) # <<>>
        /\ EofDelivered(id) =>
              LET m == inbox[id][Len(inbox[id])]
                  c == chans[id][Len(chans[id])]
              IN /\ id \notin streams
                 /\ m.item = "Data" => (c.op = "feed_eof" /\ c.data = m.data)
                 /\ m.item = "Trailers" => (c.op = "feed_eof" /\ c.data = "")
                 /\ m.item = "Error" => (c.op = "set_error" /\ c.data = m.data)

\* Stream 1 was fed a chunk and then failed; stream 2 ended with trailers.
C17_Witness ==
    /\ chans[1] = <<FeedData("a", 1), SetError("reset")>>
    /\ inbox[2] = <<MsgHeaders(FALSE), MsgEof([kind |-> "Trailers", data |-> ""])>>
    /\ chans[2] = <<FeedEof("")>>


(***************************************************************************)
(* Response body: the loop of the stream task.                             *)
(***************************************************************************)
\* The head of the response went out without endStream: a body follows.
Streaming(task) == task.frames # <<>> /\ ~task.frames[1].eos

EndFrame == PayloadFrame("", TRUE)

\* What the producer has yielded so far, as frames: one per non-empty chunk,
\* and the closing frame once it has yielded None.
FramesProduced(task) ==
    IF task.polls > Len(task.script)
    THEN ChunkFrames(task.script, Len(task.script)) \o <<EndFrame>>
    ELSE ChunkFrames(task.script, task.polls)

\* C14: while no send fails, the payload frames of a stream are one frame
\* without endStream for every non-empty chunk the producer yielded and nothing
\* for an empty chunk; when the producer ends, one empty frame with endStream
\* closes the stream, as the last frame, whether or not a chunk was suppressed.
C14_FramePerNonEmptyChunk ==
    LET task == tasks[1]
    IN  (Streaming(task) /\ task.result \in {"pending", "Ok"}) =>
            /\ Tail(task.frames) \o task.inflight = FramesProduced(task)
            /\ (task.pc = "done") =>
                  /\ task.polls = Len(task.script) + 1
                  /\ task.frames[Len(task.frames)] = EndFrame
                  /\ \A i \in 1..(Len(task.frames) - 1) : ~task.frames[i].eos

\* An empty chunk was suppressed, the chunk after it was sent, the stream closed.
C14_Witness ==
    /\ tasks[1].script = <<ChunkOk(""), ChunkOk("hello")>>
    /\ tasks[1].pc = "done"
    /\ tasks[1].result = "Ok"
    /\ Len(tasks[1].frames) = 3
    /\ tasks[1].frames[2] = PayloadFrame("hello", FALSE)
    /\ tasks[1].frames[3] = EndFrame

\* At most one frame is being sent, and only while the task waits for the send.
C15_OneInFlight ==
    LET task == tasks[1]
    IN  /\ Len(task.inflight) <= 1
        /\ task.inflight # <<>> <=> task.pc = "send"
        /\ Streaming(task) =>
              \E k \in 0..task.polls :
                  \/ Tail(task.frames) = ChunkFrames(task.script, k)
                  \/ /\ k = Len(task.script)
                     /\ Tail(task.frames) = ChunkFrames(task.script, k) \o <<EndFrame>>

\* The producer is polled only when no send is pending, and a frame reaches the
\* wire only as the completion of the pending send.
C15_PollAfterSend ==
    LET task == tasks[1]
    IN  /\ tasks'[1].polls # task.polls =>
              /\ task.inflight = <<>>
              /\ tasks'[1].polls = task.polls + 1
        /\ (Streaming(task) /\ tasks'[1].frames # task.frames) =>
              /\ task.inflight # <<>>
              /\ tasks'[1].frames = Append(task.frames, task.inflight[1])
              /\ tasks'[1].inflight = <<>>

\* C15: the chunks of a stream go out in the order the producer yielded them;
\* the next chunk is asked for only after the send of the previous one has
\* completed, so two sends of one stream are never pending together.
C15_ChunksInOrderOneAtATime == [] C15_OneInFlight /\ [][C15_PollAfterSend]_vars

\* Two different chunks were sent, in the order they were yielded.
C15_Witness ==
    /\ tasks[1].script = <<ChunkOk("you"), ChunkOk("hello")>>
    /\ tasks[1].polls = 2
    /\ tasks[1].frames[2] = PayloadFrame("you", FALSE)
    /\ tasks[1].inflight = <<PayloadFrame("hello", FALSE)>>

HeadSent(task) == task.frames # <<>>

\* When the head carries endStream it is the only frame of the stream and the
\* body producer is never polled.
C16_HeadOnly(task) ==
    task.frames[1].eos =>
        /\ task.frames = <<task.frames[1]>>
        /\ task.inflight = <<>>
        /\ task.polls = 0
        /\ task.pc = "done"
        /\ task.result = "Ok"

C18_FlagOrder ==
    <<"no-cache", "must-revalidate", "proxy-revalidate", "no-store", "private",
      "public", "must-understand", "no-transform", "immutable", "only-if-cached">>

C18_Priority(cc) ==
    << <<"max-age", cc.max_age>>, <<"s-maxage", cc.s_maxage>>,
       <<"stale-while-revalidate", cc.stale_while_revalidate>>,
       <<"stale-if-error", cc.stale_if_error>>, <<"max-stale", cc.max_stale>>,
       <<"min-fresh", cc.min_fresh>> >>

\* The flags asked for, by their place in the fixed order.
C18_FlagsAt(values) == {n \in 1..10 : \E i \in 1..Len(values) : values[i] = C18_FlagOrder[n]}

C18_IsFlag(v) == \E n \in 1..10 : v = C18_FlagOrder[n]

\* C18: build writes the flags that are set in the fixed order, whatever the
\* order they were set in, then at most one time directive: the first that is
\* set in the priority order, in whole seconds.  Only max-age=60 gives
\* "max-age=60"; no-cache and private with max-age=30 give
\* "no-cache, private, max-age=30".
C18_BuildOrder ==
    (call.fn = "CacheControl" /\ call.done) =>
        LET values == call.out.value
            flags == SelectSeq(values, C18_IsFlag)
            times == SelectSeq(values, LAMBDA v : ~C18_IsFlag(v))
            prio == C18_Priority(call.cc)
            set == {i \in 1..6 : prio[i][2].some}
        IN  /\ values = flags \o times
            /\ C18_FlagsAt(flags) = {n + 1 : n \in call.flags}
            /\ Len(flags) = Cardinality(call.flags)
            /\ \A i, j \in 1..Len(flags) :
                  i < j => \E n, m \in 1..10 :
                              n < m /\ flags[i] = C18_FlagOrder[n] /\ flags[j] = C18_FlagOrder[m]
            /\ Len(times) <= 1
            /\ (set = {}) <=> (times = <<>>)
            /\ set # {} =>
                  LET first == CHOOSE i \in set : \A j \in set : i <= j
                  IN  times = <<prio[first][1] \o "="
                                  \o FormatDecimal(prio[first][2].d \div 1000)>>
            /\ (call.flags = {} /\ set = {1} /\ call.cc.max_age.d = 60000)
                  => ValueText(values) = "max-age=60"
            /\ (call.flags = {0, 4} /\ call.cc.max_age = Some(30000))
                  => ValueText(values) = "no-cache, private, max-age=30"
            /\ call.out.self = call.cc

\* no-cache and private with max-age=30 and two directives of lower priority.
C18_Witness ==
    /\ call.fn = "CacheControl"
    /\ call.done
    /\ call.flags = {0, 4}
    /\ call.cc.bitflags = BitOr(PRIVATE, NO_CACHE)
    /\ call.cc.max_age = Some(30000)
    /\ call.cc.s_maxage.some
    /\ call.cc.min_fresh.some
    /\ call.out.value = <<"no-cache", "private", "max-age=30">>


(***************************************************************************)
(* Quality::from_f32 and Display for Quality.                              *)
(***************************************************************************)
\* The decimal text of k thousandths, 0 <= k <= 1000, without trailing zeros.
C19_Text(k) ==
    CASE k = 1000 -> "1"
      [] k = 0 -> "0"
      [] k % 100 = 0 -> "0." \o FormatDecimal(k \div 100)
      [] k % 10 = 0 -> "0." \o (IF k < 100 THEN "0" ELSE "") \o FormatDecimal(k \div 10)
      [] OTHER -> "0." \o (IF k < 10 THEN "00" ELSE IF k < 100 THEN "0" ELSE "")
                       \o FormatDecimal(k)

\* C19 as stated: from_f32 gives no Quality for an argument outside [0, 1]
\* (NaN and the infinities included) and a Quality holding the argument's
\* thousandths for an argument inside; a Quality so made is written without
\* error as "q=" and its value, and the default Quality as the empty text.
C19_QualityRangeAndText ==
    (call.fn = "Quality" /\ call.stage # "arg") =>
        /\ call.arg.lit \in {"NaN", "inf", "-inf"} => ~call.made.some
        /\ (call.arg.lit = "decimal" /\ (call.arg.k < 0 \/ call.arg.k > 10000))
              => ~call.made.some
        /\ (call.arg.lit = "decimal" /\ call.arg.k \in 0..10000) =>
              /\ call.made.some
              /\ call.made.quality.kind = "Value"
              /\ call.made.quality.q \in 0..1000
              /\ call.arg.k % 10 = 0 => call.made.quality.q = call.arg.k \div 10
        /\ (call.stage = "shown" /\ call.arg.lit = "decimal") =>
              /\ call.shown.ok
              /\ call.shown.text = "q=" \o C19_Text(call.made.quality.q)
              /\ call.arg.k = 5000 => call.shown.text = "q=0.5"
        /\ (call.stage = "shown" /\ call.arg.lit = "default") =>
              call.shown = [ok |-> TRUE, text |-> ""]


(***************************************************************************)
(* ControlService.                                                         *)
(***************************************************************************)
\* C20: the control service is ready whenever it is polled and answers every
\* control message at once with the acknowledgement of that very message,
\* never with an error; what it answers does not depend on what it was asked
\* before.
C20_ControlAcksEverything ==
    call.fn = "ControlService" =>
        /\ \A i \in 1..Len(call.log) :
              /\ call.log[i].res.ready
              /\ call.log[i].res.ok
              /\ call.log[i].op = "call" => call.log[i].res.ack = "ack(" \o call.log[i].msg \o ")"
        /\ \A i, j \in 1..Len(call.log) :
              (call.log[i].op = call.log[j].op /\ call.log[i].msg = call.log[j].msg)
                  => call.log[i].res = call.log[j].res

\* The end of the connection was acknowledged, then the service was polled,
\* then a keepalive was acknowledged.
C20_Witness ==
    /\ call.fn = "ControlService"
    /\ Len(call.log) = 3
    /\ call.log[1] = [op |-> "call", msg |-> "terminated",
                      res |-> [ready |-> TRUE, ok |-> TRUE, ack |-> "ack(terminated)"]]
    /\ call.log[2].op = "poll_ready"
    /\ call.log[3].op = "call"
    /\ call.log[3].msg = "keepalive"
    /\ call.log[3].res.ack = "ack(keepalive)"


(***************************************************************************)
(* Request URI (the head of the stream task).                              *)
(***************************************************************************)
\* The task failed before the user service was called and sent nothing.
C22_FailedBeforeService(task, error) ==
    /\ task.pc = "done"
    /\ task.result = error
    /\ task.svc = NoService
    /\ task.frames = <<>>
    /\ task.inflight = <<>>

\* The task went on to the user service with the URI text.
C22_WentOnWith(task, text) ==
    /\ task.uri = text
    /\ task.result \notin {"MissingPseudo(Scheme)", "InvalidUri"}
    /\ task.pc = "done" => task.svc # NoService

\* C22: with :authority the URI is scheme://authority followed by the path,
\* and a missing :scheme fails the stream with MissingPseudo before the user
\* service is called; without :authority the URI is the path alone, whether or
\* not :scheme is there; a URI text that does not parse fails the stream with
\* the URI error.
C22_RequestUri ==
    LET task == tasks[1]
        p == task.pseudo
    IN  (task.pc \notin {"none", "start"} /\ p.path # "" /\ p.method # "") =>
            /\ (p.authority # "" /\ p.scheme = "") =>
                  C22_FailedBeforeService(task, "MissingPseudo(Scheme)")
            /\ (p.authority # "" /\ p.scheme # "") =>
                  IF p.path \in {"/ x"}
                  THEN C22_FailedBeforeService(task, "InvalidUri")
                  ELSE C22_WentOnWith(task, p.scheme \o "://" \o p.authority \o p.path)
            /\ p.authority = "" =>
                  IF p.path \in {"/ x"}
                  THEN C22_FailedBeforeService(task, "InvalidUri")
                  ELSE C22_WentOnWith(task, p.path)

\* A request with :scheme and :authority reached the user service.
C22_Witness ==
    /\ tasks[1].pseudo = Pseudo("GET", "/x", "https", "example.org")
    /\ tasks[1].uri = "https://example.org/x"
    /\ tasks[1].pc = "done"
    /\ tasks[1].svc # NoService


(***************************************************************************)
(* The frames of one stream task, taken together.                          *)
(***************************************************************************)
C23_EndFrames(frames) == {i \in 1..Len(frames) : frames[i].eos}

C23_LegalFrames ==
    LET task == tasks[1]
        all == task.frames \o task.inflight
    IN  /\ \A i \in 1..Len(all) : (all[i].kind = "response") <=> (i = 1)
        /\ Cardinality(C23_EndFrames(all)) <= 1
        /\ \A i \in C23_EndFrames(all) : i = Len(all)
        /\ task.svc = NoService => all = <<>>
        /\ (task.pc = "done" /\ task.result = "Ok") =>
              /\ Cardinality(C23_EndFrames(task.frames)) = 1
              /\ task.inflight = <<>>

\* What was sent stays sent: a step adds at most one frame, at the end.
C23_FramesOnlyAppended ==
    \/ tasks'[1].frames = tasks[1].frames
    \/ /\ Len(tasks'[1].frames) = Len(tasks[1].frames) + 1
       /\ SubSeq(tasks'[1].frames, 1, Len(tasks[1].frames)) = tasks[1].frames

\* C23: the frames of a stream task, those sent and the one being sent, are
\* the head first and once, then payload frames; at most one frame carries
\* endStream and nothing follows it; nothing is sent before the user service
\* has returned; a task that ends with Ok has sent exactly one frame with
\* endStream.
C23_FrameSequenceLegal == [] C23_LegalFrames /\ [][C23_FramesOnlyAppended]_vars

\* A head without endStream, a chunk, the closing frame, and the task is done.
C23_Witness ==
    /\ tasks[1].pc = "done"
    /\ tasks[1].result = "Ok"
    /\ Len(tasks[1].frames) = 3
    /\ tasks[1].frames[1].kind = "response"
    /\ ~tasks[1].frames[1].eos
    /\ ~tasks[1].frames[2].eos
    /\ tasks[1].frames[3].eos


(***************************************************************************)
(* The borrows of the stream table.                                        *)
(***************************************************************************)
\* C21: under every interleaving of messages and steps of the stream tasks, no
\* borrow of the stream table meets another one (borrow_mut never panics), and
\* none is alive when call has returned or while a stream task is suspended:
\* every insert, lookup and removal borrows the table inside one synchronous
\* stretch of call.
C21_BorrowsNeverOverlap == ~borrow.panicked /\ ~borrow.held

\* The table was written, read and written for stream 1, whose task waits for
\* its body, while stream 2 has a sender and a task waiting for the service.
C21_Witness ==
    /\ borrow = RefCellNew
    /\ inbox[1] # <<>>
    /\ Len(inbox[1]) = 3
    /\ inbox[1][2].kind = "Data"
    /\ inbox[1][3].kind = "Eof"
    /\ tasks[1].pc = "poll"
    /\ 2 \in streams
    /\ tasks[2].pc = "service"

====
